---- MODULE Spec2Model ----
(***************************************************************************)
(* Bluetooth heart-rate dashboard (src/main.py): the websocket command     *)
(* loop, connect_ble / disconnect_ble, the notification handler, the       *)
(* ConnectionManager fan-out and the measurements table.                   *)
(*                                                                         *)
(* Concurrency is asyncio's: one task runs at a time and control changes   *)
(* hands only at an await that suspends.  Each action below is the code    *)
(* one task runs from one suspension to the next.                          *)
(***************************************************************************)
EXTENDS Integers, Sequences, FiniteSets, TLC

\* ------------------------------------------------------------------ bounds
NViewers == 2
MaxClients == 2
MaxRows == 1
MaxStore == 3
MaxPayload == 4

Viewers == 1..NViewers
ClientIds == 1..MaxClients
Addresses == {"X", "Y"}
HrVals == {60}
None == 0

VARIABLES
    BLEAK_AVAILABLE,      \* TRUE: the bleak library, FALSE: the mock classes
    active_connections,   \* manager.active_connections, a list of websockets
    current_client,       \* the global: None or a BleakClient
    current_hr,           \* the global
    clients,              \* every BleakClient constructed, in order
    db,                   \* the rows of table measurements, by id
    vpc,                  \* websocket_endpoint task of each viewer: where it is
    address,              \* connect_ble's parameter, per viewer task
    vself,                \* the client whose awaited method the task is in
    broken,               \* the viewer's peer has gone: its sends raise
    vb,                   \* the broadcast a viewer task is in: list iterator
    npc,                  \* the notification task of each client
    nb                    \* the broadcast a notification task is in

\* History variables record what the program did; no program action reads
\* them.
VARIABLES
    call,                 \* per viewer: its last command and how it went
    sends,                \* per task: the broadcast it is in, as it has gone
    escaped,              \* an exception has left a broadcast
    drops                 \* the clients a payload of which was not decoded

\* The functions called on their own, outside the tasks.
VARIABLES
    now,                  \* what CURRENT_TIMESTAMP reads, in seconds
    ret                   \* the last such call: function, arguments, result

uvars == <<now, ret>>

hvars == <<call, sends, escaped, drops, uvars>>

pvars == <<BLEAK_AVAILABLE, active_connections, current_client, current_hr,
           clients, db, vpc, address, vself, broken, vb, npc, nb>>

vars == <<pvars, hvars>>

\* ----------------------------------------------------------------- helpers
Range(s) == {s[i] : i \in 1..Len(s)}

\* list.remove(x): drops the first element equal to x.
Remove(s, x) ==
    LET i == CHOOSE k \in 1..Len(s) : s[k] = x /\ \A j \in 1..(k - 1) : s[j] # x
    IN  SubSeq(s, 1, i - 1) \o SubSeq(s, i + 1, Len(s))

Connected(c) == clients[c].is_connected

ConnectedClients == {c \in 1..Len(clients) : Connected(c)}

\* A disconnect() that leaves the link up.
BleakClient_disconnect_noop(c) == clients

\* BleakClient.disconnect, connect and start_notify, as they leave the client.
BleakClient_disconnect(c) == [clients EXCEPT ![c].is_connected = FALSE]

BleakClient_connect(c) == [clients EXCEPT ![c].is_connected = TRUE]

BleakClient_start_notify(c) == [clients EXCEPT ![c].notify = TRUE]

\* The test without its second half.
SessionLive_unchecked == current_client # None

\* `if current_client and current_client.is_connected`
SessionLive == current_client # None /\ Connected(current_client)

\* --------------------------------------------------------------- decoding
\* heart_rate_notification_handler, the decoding part.
hr_format(data) == data[1] % 2

\* data[0], then data[1] or struct.unpack_from("<H", data, 1): the indexing
\* raises on a payload that is too short.
Decodable(data) ==
    /\ Len(data) >= 1
    /\ IF hr_format(data) = 0 THEN Len(data) >= 2 ELSE Len(data) >= 3

\* A decoder that reads the 16-bit value high byte first.
Decode_big_endian(data) ==
    IF hr_format(data) = 0 THEN data[2] ELSE data[3] + 256 * data[2]

Decode(data) ==
    IF hr_format(data) = 0 THEN data[2] ELSE data[2] + 256 * data[3]

\* What the mock's _simulate_notifications builds: bytearray([0, hr]).
MockPayloads == {<<0, hr>> : hr \in HrVals}

\* What a real device may send: well formed in both widths, and too short.
Payloads ==
    MockPayloads \cup {<<1, hr, 0>> : hr \in HrVals}
                 \cup {<<>>, <<0>>, <<1>>} \cup {<<1, hr>> : hr \in HrVals}

\* -------------------------------------------------------------- broadcast
\* ConnectionManager.broadcast is a for loop over the live list: Python's
\* list iterator holds an index and reads the list again at every step.
\* A task in a broadcast holds the iterator's index (it: the elements
\* consumed) and the loop variable (connection: the websocket whose
\* send_json it is suspended in).
NoBc == [it |-> 0, connection |-> None]

NextIndex(i) == i + 1

\* The iterator has another element: its index is within the list as it is
\* now.
BcMore(b) == b.it < Len(active_connections)

\* The loop takes the next element and calls send_json on it.
BcStep(b) ==
    [it |-> NextIndex(b.it),
     connection |-> active_connections[NextIndex(b.it)]]

\* broadcast(message) is entered with a list that is not empty.
BcStart == BcStep(NoBc)

\* send_json raises on a websocket whose peer has gone.
SendRaises(connection) == broken[connection]

\* A loop without the try: what a send raises leaves broadcast.
SendEscapes_uncaught(connection) == SendRaises(connection)

\* `except Exception as e: logger.error(...)`: whatever a send raises is
\* logged inside the loop, nothing leaves broadcast.
SendEscapes(connection) == FALSE

\* The send the task is suspended in is the loop's last and the loop ends
\* when it returns.
BcOver(b) == ~SendEscapes(b.connection) /\ ~BcMore(b)

\* bc: the broadcast.  value: the handler's hr_val.  attempted: whether it
\* called save_heart_rate before the broadcast.  saved: whether that call
\* inserted the row.
NoNb == [bc |-> NoBc, value |-> 0, attempted |-> FALSE, saved |-> FALSE]

BcPcs == {"bc_connecting", "bc_connected", "bc_error", "bc_disconnected"}

\* ------------------------------------------------- websocket_endpoint task
\* Leaves through `except`: manager.disconnect(websocket), then the task ends.
Unregister(v) ==
    /\ active_connections' = Remove(active_connections, v)
    /\ vpc' = [vpc EXCEPT ![v] = "closed"]

\* A browser opens /ws: manager.connect accepts it and appends it.
Register(v) ==
    /\ vpc[v] = "new"
    /\ active_connections' = Append(active_connections, v)
    /\ vpc' = [vpc EXCEPT ![v] = "recv"]
    /\ UNCHANGED <<BLEAK_AVAILABLE, current_client, current_hr, clients, db,
                   address, vself, broken, vb, npc, nb>>

\* The viewer's peer goes away; its task learns of it at its next receive.
Drop(v) ==
    /\ vpc[v] \notin {"new", "closed"}
    /\ ~broken[v]
    /\ broken' = [broken EXCEPT ![v] = TRUE]
    /\ UNCHANGED <<BLEAK_AVAILABLE, active_connections, current_client,
                   current_hr, clients, db, vpc, address, vself, vb, npc, nb>>

\* receive_json raises WebSocketDisconnect.
RecvClosed(v) ==
    /\ vpc[v] = "recv"
    /\ broken[v]
    /\ Unregister(v)
    /\ UNCHANGED <<BLEAK_AVAILABLE, current_client, current_hr, clients, db,
                   address, vself, broken, vb, npc, nb>>

\* A message that is no JSON object: data.get raises, `except Exception`.
RecvMalformed(v) ==
    /\ vpc[v] = "recv"
    /\ ~broken[v]
    /\ Unregister(v)
    /\ UNCHANGED <<BLEAK_AVAILABLE, current_client, current_hr, clients, db,
                   address, vself, broken, vb, npc, nb>>

\* A JSON object whose action is neither "connect" nor "disconnect".
RecvUnknown(v) ==
    /\ vpc[v] = "recv"
    /\ ~broken[v]
    /\ UNCHANGED pvars

\* The clients the model may still construct.
ClientBudget ==
    Len(clients)
      + Cardinality({w \in Viewers : vpc[w] \in {"c_disconnect", "bc_connecting"}})
      < MaxClients

\* {"action": "connect", "address": a}: connect_ble(a) up to its first
\* suspension, in current_client.disconnect() (bleak) or in the first send of
\* the "Connecting to" broadcast.
RecvConnect(v, a) ==
    /\ vpc[v] = "recv"
    /\ ~broken[v]
    /\ ClientBudget
    /\ address' = [address EXCEPT ![v] = a]
    /\ IF SessionLive /\ BLEAK_AVAILABLE
         THEN /\ vpc' = [vpc EXCEPT ![v] = "c_disconnect"]
              /\ vself' = [vself EXCEPT ![v] = current_client]
              /\ UNCHANGED <<clients, vb>>
         ELSE /\ clients' = IF SessionLive
                              THEN BleakClient_disconnect(current_client)
                              ELSE clients
              /\ vpc' = [vpc EXCEPT ![v] = "bc_connecting"]
              /\ vb' = [vb EXCEPT ![v] = BcStart]
              /\ UNCHANGED vself
    /\ UNCHANGED <<BLEAK_AVAILABLE, active_connections, current_client,
                   current_hr, db, broken, npc, nb>>

\* bleak's disconnect() returns, or raises out of connect_ble (line 250 is
\* outside the try) into websocket_endpoint's `except Exception`.
ConnectTeardownDone(v) ==
    /\ vpc[v] = "c_disconnect"
    /\ \E ok \in BOOLEAN :
         IF ok
           THEN /\ clients' = BleakClient_disconnect(vself[v])
                /\ vpc' = [vpc EXCEPT ![v] = "bc_connecting"]
                /\ vb' = [vb EXCEPT ![v] = BcStart]
                /\ UNCHANGED <<active_connections, address>>
           ELSE /\ Unregister(v)
                /\ address' = [address EXCEPT ![v] = ""]
                /\ UNCHANGED <<clients, vb>>
    /\ vself' = [vself EXCEPT ![v] = None]
    /\ UNCHANGED <<BLEAK_AVAILABLE, current_client, current_hr, db, broken,
                   npc, nb>>

\* A send of a viewer task's broadcast returns (or raised and was logged) and
\* the loop goes on to the next element of the list.  An exception leaving
\* broadcast would reach connect_ble's except clause from inside its try, and
\* websocket_endpoint's `except Exception` from anywhere else.
ViewerSendNext(v) ==
    /\ vpc[v] \in BcPcs
    /\ IF SendEscapes(vb[v].connection)
         THEN IF vpc[v] = "bc_connected"
           THEN /\ vpc' = [vpc EXCEPT ![v] = "bc_error"]
                /\ vb' = [vb EXCEPT ![v] = BcStart]
                /\ UNCHANGED <<active_connections, address>>
           ELSE /\ Unregister(v)
                /\ vb' = [vb EXCEPT ![v] = NoBc]
                /\ address' = [address EXCEPT ![v] = ""]
         ELSE /\ BcMore(vb[v])
              /\ vb' = [vb EXCEPT ![v] = BcStep(vb[v])]
              /\ UNCHANGED <<active_connections, vpc, address>>
    /\ UNCHANGED <<BLEAK_AVAILABLE, current_client, current_hr, clients, db,
                   vself, broken, npc, nb>>

\* The "Connecting to" broadcast is over: current_client = BleakClient(address)
\* and the task suspends in current_client.connect().
AfterConnecting(v) ==
    /\ vpc[v] = "bc_connecting"
    /\ BcOver(vb[v])
    /\ clients' = Append(clients, [address |-> address[v],
                                   is_connected |-> FALSE, notify |-> FALSE])
    /\ current_client' = Len(clients) + 1
    /\ vself' = [vself EXCEPT ![v] = Len(clients) + 1]
    /\ vpc' = [vpc EXCEPT ![v] = "connect"]
    /\ vb' = [vb EXCEPT ![v] = NoBc]
    /\ UNCHANGED <<BLEAK_AVAILABLE, active_connections, current_hr, db,
                   address, broken, npc, nb>>

\* What client.connect() may do: the mock always connects.
ConnectOutcomes == IF BLEAK_AVAILABLE THEN BOOLEAN ELSE {TRUE}

\* client.connect() returns (the mock sets is_connected and creates its
\* notification task) and "Connected to" is broadcast; or it raises and the
\* except clause broadcasts the error.
ConnectDone(v) ==
    /\ vpc[v] = "connect"
    /\ \E ok \in ConnectOutcomes :
         IF ok
           THEN /\ clients' = BleakClient_connect(vself[v])
                /\ npc' = IF BLEAK_AVAILABLE THEN npc
                          ELSE [npc EXCEPT ![vself[v]] = "start"]
                /\ vpc' = [vpc EXCEPT ![v] = "bc_connected"]
           ELSE /\ vpc' = [vpc EXCEPT ![v] = "bc_error"]
                /\ UNCHANGED <<clients, npc>>
    /\ vb' = [vb EXCEPT ![v] = BcStart]
    /\ vself' = [vself EXCEPT ![v] = None]
    /\ UNCHANGED <<BLEAK_AVAILABLE, active_connections, current_client,
                   current_hr, db, address, broken, nb>>

\* The "Connected to" broadcast is over: current_client.start_notify(...).
\* current_client is read again here: None raises AttributeError.  The mock's
\* start_notify does not suspend, bleak's does.
AfterConnected(v) ==
    /\ vpc[v] = "bc_connected"
    /\ BcOver(vb[v])
    /\ IF current_client = None
         THEN /\ vpc' = [vpc EXCEPT ![v] = "bc_error"]
              /\ vb' = [vb EXCEPT ![v] = BcStart]
              /\ UNCHANGED <<clients, vself, address>>
         ELSE IF BLEAK_AVAILABLE
           THEN /\ vpc' = [vpc EXCEPT ![v] = "start_notify"]
                /\ vself' = [vself EXCEPT ![v] = current_client]
                /\ vb' = [vb EXCEPT ![v] = NoBc]
                /\ UNCHANGED <<clients, address>>
           ELSE /\ clients' = BleakClient_start_notify(current_client)
                /\ vpc' = [vpc EXCEPT ![v] = "recv"]
                /\ vb' = [vb EXCEPT ![v] = NoBc]
                /\ address' = [address EXCEPT ![v] = ""]
                /\ UNCHANGED vself
    /\ UNCHANGED <<BLEAK_AVAILABLE, active_connections, current_client,
                   current_hr, db, broken, npc, nb>>

\* bleak's start_notify returns, or raises (it cannot succeed on a client that
\* is not connected).
StartNotifyDone(v) ==
    /\ vpc[v] = "start_notify"
    /\ \E ok \in BOOLEAN :
         /\ ok => Connected(vself[v])
         /\ IF ok
              THEN /\ clients' = BleakClient_start_notify(vself[v])
                   /\ vpc' = [vpc EXCEPT ![v] = "recv"]
                   /\ address' = [address EXCEPT ![v] = ""]
                   /\ UNCHANGED vb
              ELSE /\ vpc' = [vpc EXCEPT ![v] = "bc_error"]
                   /\ vb' = [vb EXCEPT ![v] = BcStart]
                   /\ UNCHANGED <<clients, address>>
    /\ vself' = [vself EXCEPT ![v] = None]
    /\ UNCHANGED <<BLEAK_AVAILABLE, active_connections, current_client,
                   current_hr, db, broken, npc, nb>>

\* The error broadcast is over: current_client = None.
AfterError(v) ==
    /\ vpc[v] = "bc_error"
    /\ BcOver(vb[v])
    /\ current_client' = None
    /\ vpc' = [vpc EXCEPT ![v] = "recv"]
    /\ vb' = [vb EXCEPT ![v] = NoBc]
    /\ address' = [address EXCEPT ![v] = ""]
    /\ UNCHANGED <<BLEAK_AVAILABLE, active_connections, current_hr, clients,
                   db, vself, broken, npc, nb>>

\* {"action": "disconnect"}: disconnect_ble up to its first suspension, or to
\* its end when there is no live session.
RecvDisconnect(v) ==
    /\ vpc[v] = "recv"
    /\ ~broken[v]
    /\ IF SessionLive
         THEN IF BLEAK_AVAILABLE
           THEN /\ vpc' = [vpc EXCEPT ![v] = "d_disconnect"]
                /\ vself' = [vself EXCEPT ![v] = current_client]
                /\ UNCHANGED <<clients, vb, current_client>>
           ELSE /\ clients' = BleakClient_disconnect(current_client)
                /\ vpc' = [vpc EXCEPT ![v] = "bc_disconnected"]
                /\ vb' = [vb EXCEPT ![v] = BcStart]
                /\ UNCHANGED <<vself, current_client>>
         ELSE /\ current_client' = None
              /\ UNCHANGED <<clients, vpc, vself, vb>>
    /\ UNCHANGED <<BLEAK_AVAILABLE, active_connections, current_hr, db,
                   address, broken, npc, nb>>

\* bleak's disconnect() returns and "Disconnected" is broadcast, or it raises
\* out of disconnect_ble into websocket_endpoint's `except Exception`.
DisconnectTeardownDone(v) ==
    /\ vpc[v] = "d_disconnect"
    /\ \E ok \in BOOLEAN :
         IF ok
           THEN /\ clients' = BleakClient_disconnect(vself[v])
                /\ vpc' = [vpc EXCEPT ![v] = "bc_disconnected"]
                /\ vb' = [vb EXCEPT ![v] = BcStart]
                /\ UNCHANGED active_connections
           ELSE /\ Unregister(v)
                /\ UNCHANGED <<clients, vb>>
    /\ vself' = [vself EXCEPT ![v] = None]
    /\ UNCHANGED <<BLEAK_AVAILABLE, current_client, current_hr, db, address,
                   broken, npc, nb>>

\* The "Disconnected" broadcast is over: current_client = None.
AfterDisconnected(v) ==
    /\ vpc[v] = "bc_disconnected"
    /\ BcOver(vb[v])
    /\ current_client' = None
    /\ vpc' = [vpc EXCEPT ![v] = "recv"]
    /\ vb' = [vb EXCEPT ![v] = NoBc]
    /\ UNCHANGED <<BLEAK_AVAILABLE, active_connections, current_hr, clients,
                   db, address, vself, broken, npc, nb>>

\* ------------------------------------------------------ notification tasks
\* Where a notification task is once its handler has returned: the mock's
\* loop tests `while self.is_connected`; bleak waits for the next value.
AfterHandler(c) ==
    IF BLEAK_AVAILABLE THEN "none"
    ELSE IF Connected(c) THEN "sleep" ELSE "done"

\* The INSERT of save_heart_rate: id is the next, timestamp the default.
insert(value, device_address) ==
    Append(db, [timestamp |-> now, value |-> value,
                device_address |-> device_address])

\* save_heart_rate(value, device_address): INSERT and commit; an exception
\* is logged and the row is lost.
SaveOutcomes(value, device_address) ==
    {db, insert(value, device_address)}

\* A save_heart_rate without its try: the exception leaves it.
SaveEscapes_uncaught == TRUE

\* `except Exception as e: logger.error(...)`: nothing leaves save_heart_rate.
SaveEscapes == FALSE

\* `if current_client:` guards the save.
SaveAttempted == current_client # None

\* The handler from `current_hr = hr_val` on, up to the first send of its
\* broadcast.
Handle(c, hr_val) ==
    /\ current_hr' = hr_val
    /\ IF SaveAttempted
         THEN db' \in SaveOutcomes(hr_val, clients[current_client].address)
         ELSE db' = db
    /\ IF SaveAttempted /\ db' = db /\ SaveEscapes
         THEN /\ npc' = [npc EXCEPT ![c] = "raised"]
              /\ UNCHANGED nb
         ELSE IF Len(active_connections) = 0
         THEN /\ npc' = [npc EXCEPT ![c] = AfterHandler(c)]
              /\ UNCHANGED nb
         ELSE /\ npc' = [npc EXCEPT ![c] = "bc_hr"]
              /\ nb' = [nb EXCEPT ![c] =
                          [bc |-> BcStart, value |-> hr_val,
                           attempted |-> SaveAttempted,
                           saved |-> db' # db]]

\* A handler that reads a missing byte as 0.
Handler_padded(c, data) ==
    Handle(c, IF Decodable(data) THEN Decode(data) ELSE 0)

\* heart_rate_notification_handler(sender, data) on client c's task.  A
\* payload that cannot be decoded raises before anything is assigned.
Handler(c, data) ==
    IF ~Decodable(data)
      THEN /\ npc' = [npc EXCEPT ![c] = "raised"]
           /\ UNCHANGED <<current_hr, db, nb>>
      ELSE Handle(c, Decode(data))

\* The mock's task, created by connect(), starts: `while self.is_connected`.
SimStart(c) ==
    /\ ~BLEAK_AVAILABLE
    /\ npc[c] = "start"
    /\ npc' = [npc EXCEPT ![c] = IF Connected(c) THEN "sleep" ELSE "done"]
    /\ UNCHANGED <<BLEAK_AVAILABLE, active_connections, current_client,
                   current_hr, clients, db, vpc, address, vself, broken, vb,
                   nb>>

\* The mock's sleep(1) is over: with a callback registered it calls the
\* handler, without one it goes round the loop.
SimWake(c) ==
    /\ ~BLEAK_AVAILABLE
    /\ npc[c] = "sleep"
    /\ Len(db) < MaxRows
    /\ IF clients[c].notify
         THEN \E data \in MockPayloads : Handler(c, data)
         ELSE /\ npc' = [npc EXCEPT ![c] = AfterHandler(c)]
              /\ UNCHANGED <<current_hr, db, nb>>
    /\ UNCHANGED <<BLEAK_AVAILABLE, active_connections, current_client,
                   clients, vpc, address, vself, broken, vb>>

\* A connected, subscribed device sends a value: bleak calls the handler.
BleakNotify(c, data) ==
    /\ BLEAK_AVAILABLE
    /\ c <= Len(clients)
    /\ npc[c] \in {"none", "raised"}
    /\ Connected(c)
    /\ clients[c].notify
    /\ Len(db) < MaxRows
    /\ Handler(c, data)
    /\ UNCHANGED <<BLEAK_AVAILABLE, active_connections, current_client,
                   clients, vpc, address, vself, broken, vb>>

\* A send of a handler's broadcast returns (or raised and was logged) and the
\* loop goes on.  An exception leaving broadcast would leave the handler.
NotifySendNext(c) ==
    /\ npc[c] = "bc_hr"
    /\ IF SendEscapes(nb[c].bc.connection)
         THEN /\ npc' = [npc EXCEPT ![c] = "raised"]
              /\ nb' = [nb EXCEPT ![c] = NoNb]
         ELSE /\ BcMore(nb[c].bc)
              /\ nb' = [nb EXCEPT ![c].bc = BcStep(nb[c].bc)]
              /\ UNCHANGED npc
    /\ UNCHANGED <<BLEAK_AVAILABLE, active_connections, current_client,
                   current_hr, clients, db, vpc, address, vself, broken, vb>>

\* The heart_rate broadcast is over and the handler returns.
AfterHeartRate(c) ==
    /\ npc[c] = "bc_hr"
    /\ BcOver(nb[c].bc)
    /\ npc' = [npc EXCEPT ![c] = AfterHandler(c)]
    /\ nb' = [nb EXCEPT ![c] = NoNb]
    /\ UNCHANGED <<BLEAK_AVAILABLE, active_connections, current_client,
                   current_hr, clients, db, vpc, address, vself, broken, vb>>

\* ================================================================ history
\* call is written by the websocket tasks' steps in SpecSession and stays as
\* it began in Spec.
\* cmd, res: the command the viewer task last received and how it ended.
\* made: the client this connect_ble constructed.  prev: the live session the
\* command found.  solo: no other viewer's command has overlapped it or
\* followed it.  sup: a disconnect_ble ran start to finish while this
\* connect_ble was suspended in client.connect().  saw: a "Disconnected"
\* status went out while this connect_ble was tearing the previous session
\* down.  again: this disconnect follows, with no command of anyone in
\* between, a disconnect of the same viewer that broadcast "Disconnected".
\* addr: the address a connect asked for.  sole: the live session the
\* command found was the only connected client.
NoCall ==
    [cmd |-> "none", res |-> "none", addr |-> "", made |-> None, prev |-> None,
     sole |-> FALSE, solo |-> FALSE, sup |-> FALSE, saw |-> FALSE,
     again |-> FALSE]

\* The session the command finds: the client current_client refers to, when
\* it is connected.
Found ==
    IF current_client # None /\ clients[current_client].is_connected
      THEN current_client ELSE None

Idle(w) == vpc[w] \in {"new", "recv", "closed"}

OthersIdle(v) == \A w \in Viewers \ {v} : Idle(w)

CallBegin(v, rec) ==
    [w \in Viewers |->
        IF w = v THEN rec
        ELSE [call[w] EXCEPT !.solo = FALSE, !.again = FALSE, !.sup = FALSE]]

CallEnd(v, r) == [call EXCEPT ![v].res = r]

ConnectCall(v, a) ==
    [NoCall EXCEPT
        !.cmd = "connect",
        !.res = "run",
        !.addr = a,
        !.prev = Found,
        !.sole = ConnectedClients = {Found},
        !.solo = OthersIdle(v)]

DisconnectCall(v) ==
    [NoCall EXCEPT
        !.cmd = "disconnect",
        !.res = IF Found # None THEN "run" ELSE "noop",
        !.prev = Found,
        !.solo = OthersIdle(v),
        !.again = /\ call[v].cmd = "disconnect"
                  /\ call[v].res = "ok"
                  /\ call[v].solo
                  /\ OthersIdle(v)]

\* The viewer's last message was no command: kind is "malformed" for one that
\* is no JSON object and "unknown" for an object with another action.
OtherMessage(kind) == [NoCall EXCEPT !.cmd = kind, !.res = "none"]

SawDisconnected(cl) ==
    [w \in Viewers |->
        IF vpc[w] = "c_disconnect" THEN [cl[w] EXCEPT !.saw = TRUE] ELSE cl[w]]

Superseded(cl) ==
    [w \in Viewers |->
        IF vpc[w] = "connect" THEN [cl[w] EXCEPT !.sup = TRUE] ELSE cl[w]]

\* sends and escaped are written by the websocket tasks' steps in
\* SpecBroadcast.
\* snap: the viewers registered when the broadcast began.  to: the websockets
\* send_json has been called on, in order.  bad: those of them whose send
\* raised.  mut: a viewer has registered or unregistered since it began.
NoSends == [snap |-> {}, to |-> <<>>, bad |-> {}, mut |-> FALSE]

\* What a step makes of sends: a task that enters a broadcast begins a
\* record, one whose loop takes the next element adds the send that ended and
\* the one that begins, one that is out of a broadcast has none, and a step
\* of anyone else that changes the list marks the record.
Observed ==
    [v \in Viewers |->
        IF vpc'[v] \notin BcPcs
          THEN NoSends
        ELSE IF vpc'[v] # vpc[v]
          THEN [snap |-> Range(active_connections'),
                to |-> <<vb'[v].connection>>,
                bad |-> {},
                mut |-> FALSE]
        ELSE IF vb'[v] # vb[v]
          THEN [sends[v] EXCEPT
                  !.to = Append(@, vb'[v].connection),
                  !.bad = IF broken[vb[v].connection]
                            THEN @ \cup {vb[v].connection} ELSE @]
        ELSE [sends[v] EXCEPT
                !.mut = @ \/ active_connections' # active_connections]]

Observe == sends' = Observed /\ UNCHANGED <<call, escaped, drops, uvars>>

\* A payload with no flag byte, or shorter than the flag byte's width asks.
TooShort(data) ==
    \/ Len(data) = 0
    \/ Len(data) < (IF data[1] % 2 = 0 THEN 2 ELSE 3)

\* drops is written by every task's steps in Spec: a client is in it from the
\* delivery of a payload that is too short until it disconnects.
Dropped(new) ==
    /\ drops' = {c \in drops \cup new : clients'[c].is_connected}
    /\ UNCHANGED <<call, sends, escaped, uvars>>

\* ------------------------------------------------- functions on their own
\* ret: fn is the function, arg its arguments, out what it returned or the
\* exception it raised.
NoRet == [fn |-> "none", arg |-> <<>>, out |-> "none"]

\* list.remove(x) on any list: ValueError when x is not in it.
list_remove(s, x) ==
    IF x \in Range(s)
      THEN [list |-> Remove(s, x), out |-> "ok"]
      ELSE [list |-> s, out |-> "ValueError"]

\* manager.connect(websocket) for a websocket that is not registered.
ManagerConnect(w) ==
    /\ w \notin Range(active_connections)
    /\ active_connections' = Append(active_connections, w)
    /\ ret' = [fn |-> "connect", arg |-> <<w>>, out |-> "ok"]
    /\ UNCHANGED <<BLEAK_AVAILABLE, current_client, current_hr, clients, db,
                   vpc, address, vself, broken, vb, npc, nb>>
    /\ UNCHANGED <<call, sends, escaped, drops, now>>

\* manager.disconnect(websocket) for any websocket, registered or not.
ManagerDisconnect(w) ==
    /\ active_connections' = list_remove(active_connections, w).list
    /\ ret' = [fn |-> "disconnect", arg |-> <<w>>,
               out |-> list_remove(active_connections, w).out]
    /\ UNCHANGED <<BLEAK_AVAILABLE, current_client, current_hr, clients, db,
                   vpc, address, vself, broken, vb, npc, nb>>
    /\ UNCHANGED <<call, sends, escaped, drops, now>>

\* The values of CURRENT_TIMESTAMP sampled: two seconds of one minute, the
\* next minute, the next hour and the next day, counted from a midnight.
\* Payloads for the decoding alone: every sequence of up to MaxPayload
\* bytes of the sample, which has flag bytes with bit 0 clear and set, and
\* with the other bits clear and set.
Bytes == {0, 1, 2, 255}

DecodeInputs == UNION {[1..n -> Bytes] : n \in 0..MaxPayload}

\* The first lines of heart_rate_notification_handler, up to hr_val: the
\* value decoded, or the exception of the indexing.
DecodeCall(data) ==
    /\ ret' = [fn |-> "decode", arg |-> data,
               out |-> IF Decodable(data) THEN Decode(data) ELSE "raised"]
    /\ UNCHANGED <<pvars, call, sends, escaped, drops, now>>

Instants == {0, 1, 60, 3600, 86400}

\* The values stored by the calls.
SampleValues == {60, 61}

\* period as /api/history may be given it: the three it names, and another.
Periods == {"minute", "hour", "day", "raw"}

Limits == (0 - 2)..MaxStore

\* The clock goes on.
Tick ==
    /\ now' \in {t \in Instants : t > now}
    /\ UNCHANGED <<pvars, call, sends, escaped, drops, ret>>

\* save_heart_rate(value, device_address): the row is inserted and committed,
\* or sqlite3 raises and the exception is logged.
Save(value, device_address) ==
    /\ Len(db) < MaxStore
    /\ \E ok \in BOOLEAN :
         /\ db' = IF ok THEN insert(value, device_address) ELSE db
         /\ ret' = [fn |-> "save_heart_rate",
                    arg |-> <<value, device_address>>,
                    out |-> IF ok THEN "ok" ELSE "logged"]
    /\ UNCHANGED <<BLEAK_AVAILABLE, active_connections, current_client,
                   current_hr, clients, vpc, address, vself, broken, vb, npc,
                   nb>>
    /\ UNCHANGED <<call, sends, escaped, drops, now>>

\* strftime('%Y-%m-%d %H:%M', timestamp), '%Y-%m-%d %H:00' and '%Y-%m-%d':
\* the timestamp cut to its minute, hour or day.  The strings order as the
\* instants they name.
strftime(period, timestamp) ==
    LET seconds == CASE period = "minute" -> 60
                     [] period = "hour" -> 3600
                     [] period = "day" -> 86400
    IN  timestamp - (timestamp % seconds)

\* GROUP BY time_bucket: the buckets that have a row, and the rows of one.
time_buckets(period) ==
    {strftime(period, db[i].timestamp) : i \in 1..Len(db)}

BucketRows(period, b) ==
    {i \in 1..Len(db) : strftime(period, db[i].timestamp) = b}

RECURSIVE SumValues(_)
SumValues(rows) ==
    IF rows = {} THEN 0
    ELSE LET i == CHOOSE k \in rows : TRUE
         IN  db[i].value + SumValues(rows \ {i})

\* round with the fraction cut off.
round_down(total, count) == total \div count

\* round(total / count) as Python 3 rounds a float: to the nearest integer,
\* a half to the even one.
round(total, count) ==
    LET q == total \div count
        r == total % count
    IN  IF 2 * r < count THEN q
        ELSE IF 2 * r > count THEN q + 1
        ELSE IF q % 2 = 0 THEN q ELSE q + 1

\* ORDER BY time_bucket DESC.
RECURSIVE OrderDesc(_)
OrderDesc(S) ==
    IF S = {} THEN <<>>
    ELSE LET m == CHOOSE x \in S : \A y \in S : y <= x
         IN  <<m>> \o OrderDesc(S \ {m})

\* LIMIT ?: the first n rows; SQLite takes a negative n as no limit.
LIMIT(rows, n) ==
    IF n < 0 \/ n > Len(rows) THEN rows ELSE SubSeq(rows, 1, n)

\* reversed(rows).
reversed(rows) == [i \in 1..Len(rows) |-> rows[Len(rows) + 1 - i]]

\* The three grouped queries, then the list comprehension of line 206.
Grouped(period, limit) ==
    LET rows == reversed(LIMIT(OrderDesc(time_buckets(period)), limit))
    IN  [i \in 1..Len(rows) |->
            [timestamp |-> rows[i],
             value |-> round(SumValues(BucketRows(period, rows[i])),
                             Cardinality(BucketRows(period, rows[i])))]]

\* ORDER BY timestamp DESC: the ids of the rows in an order SQL allows, the
\* rows of one timestamp in any order.
RawOrders ==
    {p \in [1..Len(db) -> 1..Len(db)] :
        /\ \A i, j \in 1..Len(db) : i # j => p[i] # p[j]
        /\ \A i \in 1..(Len(db) - 1) :
               db[p[i]].timestamp >= db[p[i + 1]].timestamp}

\* The raw query under one such order: round of an integer is the integer.
Raw(p, limit) ==
    LET rows == reversed(LIMIT(p, limit))
    IN  [i \in 1..Len(rows) |->
            [timestamp |-> db[rows[i]].timestamp,
             value |-> round(db[rows[i]].value, 1)]]

\* get_history(period, limit): what it may return.
get_history(period, limit) ==
    IF period \in {"minute", "hour", "day"}
      THEN {Grouped(period, limit)}
      ELSE {Raw(p, limit) : p \in RawOrders}

\* GET /api/history?period=...&limit=...
Query(period, limit) ==
    /\ \E out \in get_history(period, limit) :
         ret' = [fn |-> "get_history", arg |-> <<period, limit>>, out |-> out]
    /\ UNCHANGED <<pvars, call, sends, escaped, drops, now>>

\* ------------------------------------------------------------------- Init
Init ==
    /\ BLEAK_AVAILABLE \in BOOLEAN
    /\ active_connections = <<>>
    /\ current_client = None
    /\ current_hr = 0
    /\ clients = <<>>
    /\ db = <<>>
    /\ vpc = [v \in Viewers |-> "new"]
    /\ address = [v \in Viewers |-> ""]
    /\ vself = [v \in Viewers |-> None]
    /\ broken = [v \in Viewers |-> FALSE]
    /\ vb = [v \in Viewers |-> NoBc]
    /\ npc = [c \in ClientIds |-> "none"]
    /\ nb = [c \in ClientIds |-> NoNb]
    /\ call = [v \in Viewers |-> NoCall]
    /\ sends = [v \in Viewers |-> NoSends]
    /\ escaped = FALSE
    /\ drops = {}
    /\ now = 0
    /\ ret = NoRet

\* The websocket tasks' steps, each with what it adds to call.
Quiet == UNCHANGED <<sends, escaped, drops, uvars>>

SessionNext ==
    \/ \E v \in Viewers : Register(v) /\ UNCHANGED hvars
    \/ \E v \in Viewers : Drop(v) /\ UNCHANGED hvars
    \/ \E v \in Viewers : RecvClosed(v) /\ UNCHANGED hvars
    \/ \E v \in Viewers :
         /\ RecvMalformed(v)
         /\ call' = [call EXCEPT ![v] = OtherMessage("malformed")]
         /\ Quiet
    \/ \E v \in Viewers :
         /\ RecvUnknown(v)
         /\ call' = [call EXCEPT ![v] = OtherMessage("unknown")]
         /\ Quiet
    \/ \E v \in Viewers, a \in Addresses :
         /\ RecvConnect(v, a)
         /\ call' = CallBegin(v, ConnectCall(v, a))
         /\ Quiet
    \/ \E v \in Viewers :
         /\ ConnectTeardownDone(v)
         /\ call' = IF vpc'[v] = "closed" THEN CallEnd(v, "raised") ELSE call
         /\ Quiet
    \/ \E v \in Viewers : ViewerSendNext(v) /\ UNCHANGED hvars
    \/ \E v \in Viewers :
         /\ AfterConnecting(v)
         /\ call' = [call EXCEPT ![v].made = current_client', ![v].saw = FALSE]
         /\ Quiet
    \/ \E v \in Viewers :
         /\ ConnectDone(v)
         /\ call' = IF vpc'[v] = "bc_error" THEN CallEnd(v, "err_connect") ELSE call
         /\ Quiet
    \/ \E v \in Viewers :
         /\ AfterConnected(v)
         /\ call' = IF vpc'[v] = "bc_error" THEN CallEnd(v, "err_notify")
                    ELSE IF vpc'[v] = "recv" THEN CallEnd(v, "ok") ELSE call
         /\ Quiet
    \/ \E v \in Viewers :
         /\ StartNotifyDone(v)
         /\ call' = IF vpc'[v] = "bc_error" THEN CallEnd(v, "err_notify")
                    ELSE CallEnd(v, "ok")
         /\ Quiet
    \/ \E v \in Viewers : AfterError(v) /\ UNCHANGED hvars
    \/ \E v \in Viewers :
         /\ RecvDisconnect(v)
         /\ call' = IF vpc'[v] = "recv"
                      THEN Superseded(CallBegin(v, DisconnectCall(v)))
                    ELSE IF vpc'[v] = "bc_disconnected"
                      THEN SawDisconnected(CallBegin(v, DisconnectCall(v)))
                    ELSE CallBegin(v, DisconnectCall(v))
         /\ Quiet
    \/ \E v \in Viewers :
         /\ DisconnectTeardownDone(v)
         /\ call' = IF vpc'[v] = "closed" THEN CallEnd(v, "raised")
                    ELSE SawDisconnected(call)
         /\ Quiet
    \/ \E v \in Viewers :
         AfterDisconnected(v) /\ call' = CallEnd(v, "ok") /\ Quiet

\* The websocket tasks' steps, each with what it adds to sends and escaped.
\* A step of ViewerSendNext that takes the task out of its loop is an
\* exception leaving broadcast.
BroadcastNext ==
    \/ \E v \in Viewers : Register(v) /\ Observe
    \/ \E v \in Viewers : Drop(v) /\ Observe
    \/ \E v \in Viewers : RecvClosed(v) /\ Observe
    \/ \E v \in Viewers : RecvMalformed(v) /\ Observe
    \/ \E v \in Viewers : RecvUnknown(v) /\ Observe
    \/ \E v \in Viewers, a \in Addresses : RecvConnect(v, a) /\ Observe
    \/ \E v \in Viewers : ConnectTeardownDone(v) /\ Observe
    \/ \E v \in Viewers :
         /\ ViewerSendNext(v)
         /\ sends' = Observed
         /\ escaped' = (escaped \/ vpc'[v] # vpc[v])
         /\ UNCHANGED <<call, drops, uvars>>
    \/ \E v \in Viewers : AfterConnecting(v) /\ Observe
    \/ \E v \in Viewers : ConnectDone(v) /\ Observe
    \/ \E v \in Viewers : AfterConnected(v) /\ Observe
    \/ \E v \in Viewers : StartNotifyDone(v) /\ Observe
    \/ \E v \in Viewers : AfterError(v) /\ Observe
    \/ \E v \in Viewers : RecvDisconnect(v) /\ Observe
    \/ \E v \in Viewers : DisconnectTeardownDone(v) /\ Observe
    \/ \E v \in Viewers : AfterDisconnected(v) /\ Observe

\* Every task's steps, each with what it adds to drops.
Next ==
    \/ \E v \in Viewers : Register(v) /\ Dropped({})
    \/ \E v \in Viewers : Drop(v) /\ Dropped({})
    \/ \E v \in Viewers : RecvClosed(v) /\ Dropped({})
    \/ \E v \in Viewers : RecvMalformed(v) /\ Dropped({})
    \/ \E v \in Viewers : RecvUnknown(v) /\ Dropped({})
    \/ \E v \in Viewers, a \in Addresses : RecvConnect(v, a) /\ Dropped({})
    \/ \E v \in Viewers : ConnectTeardownDone(v) /\ Dropped({})
    \/ \E v \in Viewers : ViewerSendNext(v) /\ Dropped({})
    \/ \E v \in Viewers : AfterConnecting(v) /\ Dropped({})
    \/ \E v \in Viewers : ConnectDone(v) /\ Dropped({})
    \/ \E v \in Viewers : AfterConnected(v) /\ Dropped({})
    \/ \E v \in Viewers : StartNotifyDone(v) /\ Dropped({})
    \/ \E v \in Viewers : AfterError(v) /\ Dropped({})
    \/ \E v \in Viewers : RecvDisconnect(v) /\ Dropped({})
    \/ \E v \in Viewers : DisconnectTeardownDone(v) /\ Dropped({})
    \/ \E v \in Viewers : AfterDisconnected(v) /\ Dropped({})
    \/ \E c \in ClientIds : SimStart(c) /\ Dropped({})
    \/ \E c \in ClientIds : SimWake(c) /\ Dropped({})
    \/ \E c \in ClientIds, data \in Payloads :
         /\ BleakNotify(c, data)
         /\ Dropped(IF TooShort(data) THEN {c} ELSE {})
    \/ \E c \in ClientIds : NotifySendNext(c) /\ Dropped({})
    \/ \E c \in ClientIds : AfterHeartRate(c) /\ Dropped({})

\* The whole program: every task.
Spec == Init /\ [][Next]_vars

\* The websocket tasks alone.  The notification tasks write current_hr, db,
\* npc and nb only, and no websocket task's step reads any of the four, so
\* the values the other variables take are the same with or without them.
SpecSession == Init /\ [][SessionNext]_vars

\* The websocket tasks alone, with the record of their broadcasts.  A
\* handler's broadcast runs the same loop over the same list.
SpecBroadcast == Init /\ [][BroadcastNext]_vars

\* The functions called on their own, in any order.
UnitNext ==
    \/ \E w \in Viewers : ManagerConnect(w)
    \/ \E w \in Viewers : ManagerDisconnect(w)

    \/ \E data \in DecodeInputs : DecodeCall(data)

SpecUnits == Init /\ [][UnitNext]_vars

\* The table on its own: rows are saved as the clock goes on, and read.
StoreNext ==
    \/ Tick
    \/ \E value \in SampleValues : Save(value, "X")
    \/ \E period \in Periods, limit \in Limits : Query(period, limit)

SpecStore == Init /\ [][StoreNext]_vars

\* ================================================================= claims

\* C1: under any interleaving of the viewers' connect and disconnect
\* commands, at most one BLE client is connected at a time and every
\* connected client is the one current_client refers to.
C1_SingleLiveSession ==
    /\ Cardinality(ConnectedClients) <= 1
    /\ \A c \in ConnectedClients : current_client = c

\* C2: when a disconnect ran while a connect was suspended in its connection
\* attempt, the connect does not go on to its success path (no "Connected to"
\* status, no subscription), and once it has finished its client is not
\* connected, nothing is subscribed on it and there is no session.
C2_SupersededConnectEndsDisconnected ==
    \A v \in Viewers :
        call[v].sup =>
            /\ vpc[v] \notin {"bc_connected", "start_notify"}
            /\ vpc[v] = "recv" =>
                 /\ ~clients[call[v].made].is_connected
                 /\ ~clients[call[v].made].notify
                 /\ current_client = None

\* A connect by v has returned normally, it found a live session that was
\* the only connected client, and no other viewer's command overlapped it or
\* has begun since.
ReconnectedAlone(v) ==
    /\ vpc[v] = "recv"
    /\ call[v].cmd = "connect"
    /\ call[v].res = "ok"
    /\ call[v].prev # None
    /\ call[v].sole
    /\ call[v].solo

\* C3: after connect(X) has succeeded, a connect(Y) with no disconnect in
\* between and no concurrent command that succeeds leaves exactly one
\* session: current_client is its client, bound to Y and connected, it is the
\* only connected client, and the client that was connected to X is not.
C3_ReconnectReplacesSession ==
    \A v \in Viewers :
        ReconnectedAlone(v) =>
            /\ current_client = call[v].made
            /\ call[v].made # call[v].prev
            /\ clients[current_client].address = call[v].addr
            /\ ConnectedClients = {current_client}
            /\ ~clients[call[v].prev].is_connected

C3_Witness ==
    \E v \in Viewers :
        /\ ReconnectedAlone(v)
        /\ clients[call[v].prev].address # call[v].addr

\* C4: when connect(Y) finds a connected session, a "Disconnected" status
\* has been broadcast since it was invoked by the time its "Connecting to Y"
\* status goes out.
C4_TeardownEventBeforeConnecting ==
    \A v \in Viewers :
        (vpc[v] = "bc_connecting" /\ call[v].prev # None) => call[v].saw

\* How many times x is in s.
Times(s, x) == Cardinality({i \in 1..Len(s) : s[i] = x})

\* The send v's broadcast is suspended in is its last: when the task runs
\* again the loop is over.
Ending(v) == vpc[v] \in BcPcs /\ vb[v].it >= Len(active_connections)

\* C5: when viewers register or unregister while a broadcast is suspended in
\* a send, every viewer that was registered when it began and still is when
\* it ends has been sent the event exactly once.
C5_BroadcastOverSnapshot ==
    \A v \in Viewers :
        Ending(v) =>
            \A w \in sends[v].snap \cap Range(active_connections) :
                Times(sends[v].to, w) = 1

\* C6: with no register or unregister during it, a broadcast calls send_json
\* exactly once on every registered viewer, whichever of the sends raise, and
\* no exception leaves a broadcast.
C6_BroadcastResilient ==
    /\ ~escaped
    /\ \A v \in Viewers :
           (Ending(v) /\ ~sends[v].mut) =>
               \A w \in Range(active_connections) : Times(sends[v].to, w) = 1

\* A broadcast in its last send, to a viewer whose peer is there, after a
\* send of it to another viewer has raised.
C6_Witness ==
    \E v \in Viewers :
        /\ Ending(v)
        /\ ~sends[v].mut
        /\ sends[v].bad # {}
        /\ ~broken[vb[v].connection]
        /\ Len(sends[v].to) = NViewers

\* C7: a disconnect that finds no connected session broadcasts nothing and
\* leaves current_client None; the second of two disconnects in a row finds
\* no connected session, so the two broadcast one "Disconnected" between them.
C7_DisconnectIdempotent ==
    \A v \in Viewers :
        call[v].cmd = "disconnect" =>
            /\ call[v].again => call[v].prev = None
            /\ call[v].prev = None =>
                 /\ vpc[v] \in {"recv", "closed"}
                 /\ vb[v] = NoBc
                 /\ call[v].solo => current_client = None

C7_Witness ==
    \E v \in Viewers :
        /\ call[v].cmd = "disconnect"
        /\ call[v].again
        /\ call[v].prev = None
        /\ vpc[v] = "recv"
        /\ current_client = None
        /\ clients # <<>>

\* C8: when the connection attempt or the subscription of a connect fails,
\* then after the error broadcast current_client is None and the client the
\* connect constructed is not connected.
C8_FailedConnectEndsDisconnected ==
    \A v \in Viewers :
        ( /\ vpc[v] = "recv"
          /\ call[v].cmd = "connect"
          /\ call[v].res \in {"err_connect", "err_notify"}
          /\ call[v].solo )
        => /\ current_client = None
           /\ call[v].made # None => ~clients[call[v].made].is_connected

\* The step delivers a payload that is too short to client c.
ShortDelivered(c) ==
    /\ c \in drops'
    /\ c \notin drops \/ (npc[c] = "none" /\ npc'[c] = "raised")

\* The step delivers a payload that is long enough to client c, which has
\* had one dropped in this session.
GoodDeliveredLater(c) ==
    /\ c \in drops
    /\ npc[c] = "raised"
    /\ npc'[c] # "raised"

\* C9: the delivery of a payload that is too short changes nothing but the
\* place of the handler's task, which has raised: no broadcast begins, no
\* row is appended, the cache and the clients stay as they are.  A client
\* that has had a payload dropped and is still subscribed can be delivered
\* any well-formed payload, and the delivery decodes it into the cache,
\* attempts the save when there is a current_client and begins the
\* heart_rate broadcast when there are viewers.
C9_ShortPayloadDropped ==
    /\ [][\A c \in ClientIds :
            /\ ShortDelivered(c) =>
                 /\ npc' = [npc EXCEPT ![c] = "raised"]
                 /\ UNCHANGED <<active_connections, current_client,
                                current_hr, clients, db, vpc, address, vself,
                                broken, vb, nb>>
            /\ GoodDeliveredLater(c) =>
                 /\ current_hr' \in HrVals
                 /\ current_client # None =>
                      db' \in SaveOutcomes(current_hr',
                                           clients[current_client].address)
                 /\ active_connections # <<>> =>
                      /\ npc'[c] = "bc_hr"
                      /\ nb'[c].value = current_hr'
                      /\ nb'[c].attempted = (current_client # None)]_vars
    /\ [](\A c \in drops :
            (npc[c] = "raised" /\ clients[c].notify /\ Len(db) < MaxRows) =>
                \A data \in Payloads :
                    ~TooShort(data) => ENABLED BleakNotify(c, data))

\* A client that had a payload dropped has since had one decoded and stored,
\* and its heart_rate broadcast is under way.
C9_Witness ==
    \E c \in drops :
        /\ npc[c] = "bc_hr"
        /\ current_client = c
        /\ current_hr = nb[c].value
        /\ db # <<>>

\* C10: a heart_rate broadcast is under way only for a value the handler
\* tried to store: it called save_heart_rate before the broadcast.
C10_HeartRateAfterAppend ==
    \A c \in ClientIds : npc[c] = "bc_hr" => nb[c].attempted

\* C11: manager.disconnect(websocket) completes without raising, whether the
\* websocket is registered or not, and leaves the list of a websocket that is
\* not registered as it was.
C11_UnregisterIdempotent ==
    ret.fn = "disconnect" => ret.out = "ok"

\* C12: a viewer whose last message was neither a connect nor a disconnect
\* command, and whose peer is still there, is registered and its task is in
\* its command loop, waiting for the next message.
C12_OtherMessagesIgnored ==
    \A v \in Viewers :
        (call[v].cmd \in {"malformed", "unknown"} /\ ~broken[v]) =>
            /\ vpc[v] = "recv"
            /\ v \in Range(active_connections)

\* C13: get_history with a limit of 0 or less returns the empty list, for
\* every period and every content of the table.
C13_NoRowsForLimitBelowOne ==
    (ret.fn = "get_history" /\ ret.arg[2] <= 0) => ret.out = <<>>

\* C14: decoding a payload whose flag byte has bit 0 clear and that has at
\* least two bytes gives byte 1; with bit 0 set and at least three bytes it
\* gives byte 1 + 256 * byte 2.  Nothing else of the payload matters: not
\* the other bits of the flag byte, not the bytes that follow.
C14_DecodeByFormat ==
    ret.fn = "decode" =>
        LET data == ret.arg IN
        /\ (Len(data) >= 2 /\ data[1] % 2 = 0) => ret.out = data[2]
        /\ (Len(data) >= 3 /\ data[1] % 2 = 1) =>
               ret.out = data[2] + 256 * data[3]

\* A 16-bit value decoded from a payload with every flag bit set and a
\* trailing byte.
C14_Witness ==
    /\ ret.fn = "decode"
    /\ ret.arg = <<255, 1, 2, 255>>
    /\ ret.out = 513

\* The buckets of the limit largest times among the buckets that have a row.
MostRecentBuckets(period, limit) ==
    {b \in time_buckets(period) :
        Cardinality({c \in time_buckets(period) : c > b}) < limit}

\* v is an integer nearest to total / count.
NearestInteger(v, total, count) ==
    /\ 2 * (count * v - total) <= count
    /\ 2 * (total - count * v) <= count

\* What C16 says of the list a grouped query returned.
AggregateOf(out, period, limit) ==
    /\ Len(out) <= limit
    /\ {out[i].timestamp : i \in 1..Len(out)} = MostRecentBuckets(period, limit)
    /\ \A i, j \in 1..Len(out) : i < j => out[i].timestamp < out[j].timestamp
    /\ \A i \in 1..Len(out) :
           NearestInteger(out[i].value,
                          SumValues(BucketRows(period, out[i].timestamp)),
                          Cardinality(BucketRows(period, out[i].timestamp)))

\* C16: for period minute, hour or day and a limit above 0, get_history
\* returns at most limit entries, one for each of the limit most recent
\* buckets that have a row, in strictly ascending order of the bucket, the
\* value of each being the mean of the bucket's values rounded to the nearest
\* integer.
C16_AggregateMostRecentBuckets ==
    [][(/\ ret'.fn = "get_history"
        /\ ret'.arg[1] \in {"minute", "hour", "day"}
        /\ ret'.arg[2] > 0
        /\ Query(ret'.arg[1], ret'.arg[2]))
          => AggregateOf(ret'.out, ret'.arg[1], ret'.arg[2])]_vars

\* Three rows of one minute, their mean 60.67, returned as one entry of 61
\* by a query for the one most recent minute; and, in another reading, fewer
\* entries than the three hours that have a row.
C16_Witness ==
    /\ ret.fn = "get_history"
    /\ ret.arg = <<"minute", 1>>
    /\ Len(db) = MaxStore
    /\ Cardinality(time_buckets("minute")) = 1
    /\ SumValues(1..Len(db)) = 182
    /\ ret.out = <<[timestamp |-> 0, value |-> 61]>>

\* C17: when the table has a row, the raw query with limit 1 returns exactly
\* one entry, and its value is the value of the row appended last, also when
\* earlier rows have the timestamp of that row.
C17_RawOneIsLastAppended ==
    [][(/\ ret'.fn = "get_history"
        /\ ret'.arg = <<"raw", 1>>
        /\ Query("raw", 1)
        /\ db # <<>>)
          => /\ Len(ret'.out) = 1
             /\ ret'.out[1].value = db[Len(db)].value]_vars

\* The step delivers a payload that can be decoded to client c's handler.
Delivered(c) ==
    /\ npc[c] \in {"sleep", "none", "raised"}
    /\ \/ SimWake(c) /\ clients[c].notify
       \/ \E data \in Payloads : ~TooShort(data) /\ BleakNotify(c, data)

\* ... and the handler called save_heart_rate, which inserted no row.
SaveFailed(c) ==
    /\ current_client # None
    /\ db' = db
    /\ Delivered(c)

\* C15: when save_heart_rate fails in the handler, nothing is raised out of
\* the handler; the cache has the value and, when there are viewers, the
\* heart_rate broadcast of that value begins; current_client and the clients
\* stay as they are; and while that broadcast is under way the handler
\* appends no row: a row that appears comes from another delivery.
C15_SaveFailureContained ==
    /\ [][\A c \in ClientIds :
            SaveFailed(c) =>
                /\ npc'[c] # "raised"
                /\ current_hr' \in HrVals
                /\ UNCHANGED <<current_client, clients, active_connections>>
                /\ active_connections # <<>> =>
                     /\ npc'[c] = "bc_hr"
                     /\ nb'[c] = [bc |-> BcStart, value |-> current_hr',
                                  attempted |-> TRUE, saved |-> FALSE]]_vars
    /\ [][\A c \in ClientIds :
            (npc[c] = "bc_hr" /\ nb[c].attempted /\ ~nb[c].saved
               /\ db' # db) =>
                \E other \in ClientIds \ {c} : Delivered(other)]_vars

\* The heart_rate broadcast of a value whose save failed has made a send.
C15_Witness ==
    \E c \in ClientIds :
        /\ npc[c] = "bc_hr"
        /\ nb[c].attempted
        /\ ~nb[c].saved
        /\ nb[c].bc.it >= 1
        /\ nb[c].value = current_hr
        /\ db = <<>>

\* C18: while a connect call is sending "Connected to <address>" to a
\* viewer, the client it made is connected and subscribed to the
\* notifications; and no connect call that sent "Connected to" goes on to
\* send an error.
C18_ConnectedAfterSubscription ==
    \A v \in Viewers :
        /\ (vpc[v] = "bc_connected" /\ vb[v].connection # None) =>
               /\ call[v].made # None
               /\ clients[call[v].made].is_connected
               /\ clients[call[v].made].notify
        /\ call[v].res # "err_notify"

\* C19: a row appended by the handler running for client c carries the
\* address of c, the device whose notification it is.
C19_RowOfNotifyingDevice ==
    [][\A c \in ClientIds :
          (db' # db /\ Delivered(c)) =>
              db'[Len(db')].device_address = clients[c].address]_vars

\* There is no session and no command is under way: the state disconnect_ble
\* leaves, until a viewer sends a connect.
SessionOff ==
    /\ current_client = None
    /\ \A v \in Viewers : Idle(v)

\* C20: when there is no session and no command is under way, as after a
\* disconnect that has broadcast "Disconnected", no notification is handled:
\* the cache is not assigned and no heart_rate broadcast begins.
C20_NoHeartRateAfterDisconnect ==
    [][SessionOff =>
          /\ current_hr' = current_hr
          /\ \A c \in ClientIds :
                /\ ~Delivered(c)
                /\ npc'[c] = "bc_hr" => npc[c] = "bc_hr"]_vars

====
